---- MODULE Spec2Model ----
(***************************************************************************)
(* ApolloEngine (src/src/engine.ts): the listen / startEngine / stop        *)
(* lifecycle of one engine session, the embedding http servers it binds    *)
(* and the engineproxy launcher it drives.                                 *)
(*                                                                         *)
(* One session object is modelled.  Every call of listen() is an "attempt" *)
(* and owns the http server it was given (attempt i owns server i: every   *)
(* call is handed a server that has not been listened on before).  Each    *)
(* callback of the code (the bind callback, the promise reactions, the     *)
(* process.nextTick callbacks, the continuation of stop()) is one action.  *)
(* meteorListen and hapiListener are modelled by what they install: the    *)
(* replaced listen / startListening of a Meteor webApp, and the promise,   *)
(* the 'error' listener and the 'newListener' watcher of hapiListener.     *)
(***************************************************************************)
EXTENDS Integers, Sequences, FiniteSets, TLC

VARIABLES
    att,                      \* one record per listen() call, in call order
    httpServer,               \* this.httpServer: 0 is null, i is attempt i's server
    engineListeningAddress,   \* this.engineListeningAddress
    launcher,                 \* this.launcher: how often start()/stop() were invoked
    stops,                    \* one record per stop() call, in call order
    env,                      \* what the caller will do: calls to come, option choices
    meteor,                   \* meteorListen: the hook or patch it installed on webApp
    hapi                      \* hapiListener: its promise, its listeners, its server

vars == <<att, httpServer, engineListeningAddress, launcher, stops, env, meteor, hapi>>

-----------------------------------------------------------------------------
(* Bounds of the exploration.                                              *)

MaxListens == 2     \* listen() calls on the session
MaxStops == 2       \* stop() calls on the session

-----------------------------------------------------------------------------
(* JavaScript values.  A value is a record [t, n, s]: its typeof tag, its  *)
(* number (when a number) and its characters (when a string).              *)

Undefined == [t |-> "undefined", n |-> 0, s |-> <<>>]
NaN == [t |-> "nan", n |-> 0, s |-> <<>>]
Num(k) == [t |-> "number", n |-> k, s |-> <<>>]
Str(chars) == [t |-> "string", n |-> 0, s |-> chars]

\* typeof v === 'string'
IsString(v) == v.t = "string"

\* isNaN(v) for the values options.port holds after parseInt
IsNaN(v) == v.t = "nan"

\* The left operand of `v || undefined` is dropped when it is falsy.
Falsy(v) ==
    \/ v.t = "undefined"
    \/ v.t = "nan"
    \/ v.t = "number" /\ v.n = 0
    \/ v.t = "string" /\ v.s = <<>>

OrUndefined(v) == IF Falsy(v) THEN Undefined ELSE v

Digits == {"0", "1", "2", "3", "4", "5", "6", "7", "8", "9"}

DigitValue(c) ==
    CASE c = "0" -> 0 [] c = "1" -> 1 [] c = "2" -> 2 [] c = "3" -> 3
      [] c = "4" -> 4 [] c = "5" -> 5 [] c = "6" -> 6 [] c = "7" -> 7
      [] c = "8" -> 8 [] c = "9" -> 9

\* Number of leading characters of chars (from position i) that are digits.
RECURSIVE DigitRun(_, _)
DigitRun(chars, i) ==
    IF i <= Len(chars) /\ chars[i] \in Digits
    THEN 1 + DigitRun(chars, i + 1)
    ELSE 0

\* Left-to-right accumulation of the digits chars[i..j] onto acc, radix 10.
RECURSIVE Accumulate(_, _, _, _)
Accumulate(chars, i, j, acc) ==
    IF i > j THEN acc
    ELSE Accumulate(chars, i + 1, j, 10 * acc + DigitValue(chars[i]))

\* parseInt(stringPort, 10): the longest prefix of decimal digits, read in
\* radix 10; NaN when the string does not start with a digit.  (The strings
\* of the model carry no sign and no leading white space.)
ParseInt(chars) ==
    LET run == DigitRun(chars, 1)
    IN  IF run = 0 THEN NaN ELSE Num(Accumulate(chars, 1, run, 0))

\* String.raw`\\.\pipe` followed by '\\'
winPipePrefix == <<"\\", "\\", ".", "\\", "p", "i", "p", "e">>

StartsWith(chars, prefix) ==
    /\ Len(chars) >= Len(prefix)
    /\ SubSeq(chars, 1, Len(prefix)) = prefix

-----------------------------------------------------------------------------
(* The options of listen() and the values the caller draws them from.      *)

\* The five server sources of ListenOptions, in the order listen() tests them.
SourceKinds == <<"httpServer", "expressApp", "connectApp", "koaApp", "restifyServer">>

PipeFoo == winPipePrefix \o <<"\\", "f">>      \* \\.\pipe\f
PipeNoSlash == winPipePrefix \o <<"f">>         \* \\.\pipef : prefix without the '\'

\* Every shape of port the code distinguishes: absent, zero and non-zero
\* numbers, digit strings (with a leading zero, and "0"), a string that only
\* starts with digits, and strings parseInt cannot read, with and without the
\* pipe prefix.
WidePorts ==
    { Undefined, Num(0), Num(7), Num(80),
      Str(<<"8", "0">>), Str(<<"0">>), Str(<<"0", "7">>), Str(<<"8", "a">>),
      Str(<<"a", "b", "c">>), Str(PipeFoo), Str(PipeNoSlash) }

WidePipePaths == { Undefined, Str(PipeFoo) }

WideHosts == { Undefined, Str(<<"h">>) }

WideSources == SUBSET { SourceKinds[i] : i \in 1..Len(SourceKinds) }

\* options.launcherOptions: absent, or an object whose extraArgs is the
\* list in `extraArgs` (an array of the caller's, held by reference).
NoLauncherOptions == [given |-> FALSE, extraArgs |-> <<>>]

ExtraArg(flag, value) == [flag |-> flag, value |-> value]

\* The launcherOptions of the sessions with any shape of options: given,
\* with one extra argument of the caller's.
WideLauncherOptions ==
    { [given |-> TRUE, extraArgs |-> << ExtraArg("-x", <<>>) >>] }

WideOptions ==
    [ port : WidePorts, pipePath : WidePipePaths, host : WideHosts,
      sources : WideSources, launcherOptions : WideLauncherOptions ]

\* The options of the sessions that call listen() more than once: calls
\* that throw at once and calls that are accepted.
NarrowOptions ==
    [ port : { Undefined, Num(80) },
      pipePath : { Undefined },
      host : { Undefined },
      sources : { {}, {"httpServer"} },
      launcherOptions : { NoLauncherOptions } ]

\* Addresses the proxy may report from start().
Addresses == { "A1", "A2" }

\* Ports the operating system may assign to the ephemeral bind.
InnerPorts == { "p1", "p2" }

-----------------------------------------------------------------------------
(* Errors.  kind names the `throw new Error(...)` site, arg the value the  *)
(* message interpolates.                                                   *)

NoError == [kind |-> "none", arg |-> <<>>]
Error(kind) == [kind |-> kind, arg |-> <<>>]
ErrorNaming(kind, chars) == [kind |-> kind, arg |-> chars]

-----------------------------------------------------------------------------
(* listen(): the synchronous checks.                                       *)

\* appsProvided after the five `if (options.xxx)` tests, counted in order.
RECURSIVE CountApps(_, _)
CountApps(sources, i) ==
    IF i > Len(SourceKinds) THEN 0
    ELSE (IF SourceKinds[i] \in sources THEN 1 ELSE 0) + CountApps(sources, i + 1)

AppsProvided(options) == CountApps(options.sources, 1)

\* Mutant of ListenError: the `appsProvided > 1` test left out.
ListenErrorNoAmbiguityCheck(options) ==
    IF options.port = Undefined /\ options.pipePath = Undefined
    THEN Error("MustProvidePipePathOrPort")
    ELSE IF AppsProvided(options) = 0
    THEN Error("MustProvideApp")
    ELSE NoError

\* The error listen() throws before it touches the session, or NoError.
ListenError(options) ==
    IF options.port = Undefined /\ options.pipePath = Undefined
    THEN Error("MustProvidePipePathOrPort")
    ELSE IF AppsProvided(options) = 0
    THEN Error("MustProvideApp")
    ELSE IF AppsProvided(options) > 1
    THEN Error("MustOnlyProvideOneApp")
    ELSE NoError

-----------------------------------------------------------------------------
(* startEngine(): everything up to the call of this.launcher.start().      *)

\* joinHostPort of ./launcher, as the spec gives originUrl: address ":" port.
joinHostPort(address, port) == <<address, ":", port>>

\* Mutant of NormalizePort: the parsed number is not stored back.
NormalizePortKeepString(options) ==
    IF options.port = Undefined /\ options.pipePath = Undefined
    THEN [options |-> options, error |-> Error("EitherPortOrPipePath")]
    ELSE IF IsString(options.port)
    THEN LET stringPort == options.port.s
             parsed == ParseInt(stringPort)
         IN  IF IsNaN(parsed)
             THEN IF StartsWith(stringPort, winPipePrefix \o <<"\\">>)
                  THEN [options |-> [options EXCEPT !.pipePath = Str(stringPort),
                                                    !.port = Undefined],
                        error |-> NoError]
                  ELSE [options |-> [options EXCEPT !.port = parsed],
                        error |-> ErrorNaming("PortMustBeIntegerOrPipe", stringPort)]
             ELSE [options |-> options, error |-> NoError]
    ELSE [options |-> options, error |-> NoError]

\* Mutant of NormalizePort: the named-pipe test without its last backslash.
NormalizePortBarePrefix(options) ==
    IF options.port = Undefined /\ options.pipePath = Undefined
    THEN [options |-> options, error |-> Error("EitherPortOrPipePath")]
    ELSE IF IsString(options.port)
    THEN LET stringPort == options.port.s
             parsed == ParseInt(stringPort)
         IN  IF IsNaN(parsed)
             THEN IF StartsWith(stringPort, winPipePrefix)
                  THEN [options |-> [options EXCEPT !.pipePath = Str(stringPort),
                                                    !.port = Undefined],
                        error |-> NoError]
                  ELSE [options |-> [options EXCEPT !.port = parsed],
                        error |-> ErrorNaming("PortMustBeIntegerOrPipe", stringPort)]
             ELSE [options |-> [options EXCEPT !.port = parsed], error |-> NoError]
    ELSE [options |-> options, error |-> NoError]

\* Lines 224-242: the options object as the first if/else-if leaves it (it is
\* assigned in place) and the error thrown there, or NoError.
NormalizePort(options) ==
    IF options.port = Undefined /\ options.pipePath = Undefined
    THEN [options |-> options, error |-> Error("EitherPortOrPipePath")]
    ELSE IF IsString(options.port)
    THEN LET stringPort == options.port.s
             parsed == ParseInt(stringPort)
         IN  IF IsNaN(parsed)
             THEN IF StartsWith(stringPort, winPipePrefix \o <<"\\">>)
                  THEN [options |-> [options EXCEPT !.pipePath = Str(stringPort),
                                                    !.port = Undefined],
                        error |-> NoError]
                  ELSE [options |-> [options EXCEPT !.port = parsed],
                        error |-> ErrorNaming("PortMustBeIntegerOrPipe", stringPort)]
             ELSE [options |-> [options EXCEPT !.port = parsed], error |-> NoError]
    ELSE [options |-> options, error |-> NoError]

\* Mutant of BothSet: the check of line 243 left out.
BothSetNever(options) == FALSE

\* Line 243: both targets set after normalisation.
BothSet(options) == options.pipePath # Undefined /\ options.port # Undefined

NoDefaults ==
    [ frontendHost |-> Undefined, frontendPort |-> Undefined,
      frontendPipePath |-> Undefined, graphqlPaths |-> <<>>,
      originUrl |-> <<>>, useFrontendPathForDefaultOrigin |-> FALSE ]

\* Lines 246-257: the `defaults` object serialised into -defaults=...
Defaults(options, innerAddress) ==
    [ frontendHost |-> options.host,
      frontendPort |-> OrUndefined(options.port),
      frontendPipePath |-> OrUndefined(options.pipePath),
      graphqlPaths |-> << <<"/", "graphql">> >>,
      originUrl |-> <<"http://">> \o joinHostPort(innerAddress.address, innerAddress.port),
      useFrontendPathForDefaultOrigin |-> TRUE ]

\* Lines 259-263: Object.assign({}, options.launcherOptions) is a new object,
\* and its extraArgs is set to a new array holding the caller's arguments
\* followed by -defaults=<JSON of defaults>.  The result has the caller's
\* object as these lines leave it and the object passed to launcher.start().
LauncherOptionsFor(launcherOptions, defaults) ==
    [ caller |-> launcherOptions,
      passed |-> [given |-> TRUE,
                  extraArgs |-> Append(launcherOptions.extraArgs,
                                       ExtraArg("-defaults", <<defaults>>))] ]

\* The synchronous part of startEngine(innerAddress, options): the options
\* object afterwards, the error it rejects with (or NoError), the defaults
\* and the launcher options handed to launcher.start() when there is no error.
StartEngineSync(options, innerAddress) ==
    LET norm == NormalizePort(options)
    IN  IF norm.error # NoError
        THEN [options |-> norm.options, error |-> norm.error, defaults |-> NoDefaults,
              startArgs |-> NoLauncherOptions]
        ELSE IF BothSet(norm.options)
        THEN [options |-> norm.options, error |-> Error("OnlyOneOfPortAndPipePath"),
              defaults |-> NoDefaults, startArgs |-> NoLauncherOptions]
        ELSE LET defaults == Defaults(norm.options, innerAddress)
                 forStart == LauncherOptionsFor(norm.options.launcherOptions, defaults)
             IN  [options |-> [norm.options EXCEPT !.launcherOptions = forStart.caller],
                  error |-> NoError, defaults |-> defaults,
                  startArgs |-> forStart.passed]

-----------------------------------------------------------------------------
(* The engineproxy launcher (./launcher), by its interface: start() and    *)
(* stop() return promises the proxy settles later.  The session only ever  *)
(* invokes them; the model counts the invocations.                         *)

LauncherStart(l) == [l EXCEPT !.starts = l.starts + 1]
LauncherStop(l) == [l EXCEPT !.stops = l.stops + 1]

-----------------------------------------------------------------------------
(* State.                                                                  *)

Unset == "unset"    \* engineListeningAddress before any assignment

NoAddress == [address |-> "", port |-> ""]

\* The session was Live and a stop() has brought it back: an earlier listen
\* had its address reported and has finished, stop() has closed that server
\* and cleared the reference, and no listen or stop() is under way.
CleanlyStopped ==
    /\ httpServer = 0
    /\ \A a \in 1..Len(att) : att[a].pc \in {"done", "thrown"}
    /\ \A i \in 1..Len(stops) : stops[i].pc # "awaiting"
    /\ \E a \in 1..Len(att) :
          /\ att[a].pc = "done" /\ att[a].reported # "unset"
          /\ att[a].server = "closed"
          /\ \E i \in 1..Len(stops) :
                stops[i].pc = "done" /\ stops[i].live /\ stops[i].server = a

\* The record of a listen(options, listenCallback) call that got past the
\* synchronous checks (pc "binding") or threw (pc "thrown").
\*   given     the option values the caller passed
\*   options   the caller's options object, as the code has left it
\*   callback  whether listenCallback was passed
\*   server    the http server of this call: unbound, binding, listening,
\*             failed (it emitted 'error' for the bind) or closed
\*   restart   whether the call was made on a cleanly stopped session
\*   startArgs the launcher options passed to launcher.start()
Attempt(options, callback, pc, thrown, server) ==
    [ given |-> options, options |-> options, callback |-> callback,
      restart |-> CleanlyStopped,
      pc |-> pc, thrown |-> thrown, server |-> server,
      innerAddress |-> NoAddress, defaults |-> NoDefaults,
      startArgs |-> NoLauncherOptions,
      rejection |-> NoError, reported |-> Unset,
      ready |-> 0, seen |-> Unset, errors |-> 0, emitted |-> NoError,
      serverErrors |-> 0 ]

\* The listenOptions (EngineNetListenOptions) a framework passes to its
\* server's listen: here none of the fields given.
NoListenOptions ==
    [ port |-> Undefined, host |-> Undefined, path |-> Undefined,
      pipePath |-> Undefined ]

\* meteorListen has not been called: nothing is installed on webApp.
\*   installed    "no", "hook" (webApp.startListening replaced) or "patch"
\*                (webApp.httpServer.listen replaced)
\*   slot         what webApp.httpServer.listen currently is
\*   options      the launcherOptions meteorListen was given
\*   calls        invocations of webApp.httpServer.listen / startListening
\*                by the framework
\*   intercepted  invocations that ran the installed function
\*   forwarded    calls of this.listen() made by the polyfill
\*   native       invocations that reached the original listen method
\*   threw        invocations the polyfill threw for
\*   args         the listenOptions of the latest intercepted invocation
NoMeteor ==
    [ installed |-> "no", slot |-> "original", options |-> NoLauncherOptions,
      calls |-> 0, intercepted |-> 0, forwarded |-> 0, native |-> 0, threw |-> 0,
      args |-> NoListenOptions ]

\* hapiListener has not been called.
\*   attempt        the listen() call made by hapiListener (0: none)
\*   p              the promise p: none, pending, resolved, rejected
\*   errorListener  whether the listener of this.once('error', reject) is
\*                  still registered on the session
\*   result         hapiListener's own promise: none, pending, returned
\*                  (resolved with the server), rejected
\*   watcher        whether callListeningImmediately listens to 'newListener'
\*   queued         ticks queued to emit 'listening', not run yet
\*   emitted        'listening' events emitted on the returned server
\*   subscribed     listeners added to the returned server, by event
\*   late           'error' events of the session delivered to the listener
\*                  after p had resolved
NoHapi ==
    [ attempt |-> 0, p |-> "none", errorListener |-> FALSE, result |-> "none",
      watcher |-> FALSE, queued |-> 0, emitted |-> 0,
      subscribed |-> [listening |-> 0, other |-> 0], late |-> 0 ]

\* The resolve and reject functions of the promise p: the first call settles
\* it, later calls do nothing.
Resolve(h) == IF h.p = "pending" THEN [h EXCEPT !.p = "resolved"] ELSE h
Reject(h) == IF h.p = "pending" THEN [h EXCEPT !.p = "rejected"] ELSE h

\* this.emit('error', error) as seen by the listener of line 200: a once
\* listener is removed and called, here reject.
EmitError(h) ==
    IF h.errorListener
    THEN [Reject(h) EXCEPT !.errorListener = FALSE,
                           !.late = IF h.p = "resolved" THEN @ + 1 ELSE @]
    ELSE h

\* What the caller may pass to its next listen() call, if it makes one.
OptionChoices ==
    IF Len(att) >= env.listens THEN {}
    ELSE IF env.options = "wide" THEN WideOptions ELSE NarrowOptions

CallbackChoices == IF env.options = "wide" THEN BOOLEAN ELSE {TRUE}

\* A session that calls listen() and stop() several times.
Init ==
    /\ att = <<>>
    /\ httpServer = 0
    /\ engineListeningAddress = Unset
    /\ launcher = [starts |-> 0, stops |-> 0]
    /\ stops = <<>>
    /\ env = [listens |-> MaxListens, stops |-> MaxStops, options |-> "narrow"]
    /\ meteor = NoMeteor
    /\ hapi = NoHapi

\* A session that calls listen() once, with any shape of options.
InitOne ==
    /\ att = <<>>
    /\ httpServer = 0
    /\ engineListeningAddress = Unset
    /\ launcher = [starts |-> 0, stops |-> 0]
    /\ stops = <<>>
    /\ env = [listens |-> 1, stops |-> MaxStops, options |-> "wide"]
    /\ meteor = NoMeteor
    /\ hapi = NoHapi

\* The session is Live: the server it references is bound and the proxy has
\* reported the public address of the listen() that bound it.
Live ==
    /\ httpServer # 0
    /\ att[httpServer].server = "listening"
    /\ att[httpServer].pc \in {"resolved", "tickReady", "done"}
    /\ att[httpServer].reported # Unset

-----------------------------------------------------------------------------
(* listen(options, listenCallback), lines 62-126: the synchronous part.    *)

\* What a call of listen(options, callback) does to the session, whoever
\* makes it: it throws, or it takes the server and requests the bind.
ListenCall(options, callback) ==
    LET id == Len(att) + 1
        error == ListenError(options)
    IN  IF error # NoError
        THEN /\ att' = Append(att, Attempt(options, callback, "thrown", error, "unbound"))
             /\ UNCHANGED httpServer
        ELSE /\ att' = Append(att, Attempt(options, callback, "binding", NoError, "binding"))
             /\ httpServer' = id

\* The caller calls listen(options, callback).
Listen(options, callback) ==
    /\ Len(att) < env.listens
    /\ ListenCall(options, callback)
    /\ UNCHANGED <<engineListeningAddress, launcher, stops, env, meteor, hapi>>

\* The callback of this.httpServer.listen (lines 110-124): the server is
\* listening; startEngine runs up to its await, or throws, which rejects its
\* promise.
BindConfirmed(a, port) ==
    /\ att[a].pc = "binding"
    /\ att[a].server = "binding"
    /\ LET innerAddress == [address |-> "127.0.0.1", port |-> port]
           r == StartEngineSync(att[a].options, innerAddress)
       IN  IF r.error # NoError
           THEN /\ att' = [att EXCEPT ![a].server = "listening",
                                      ![a].innerAddress = innerAddress,
                                      ![a].options = r.options,
                                      ![a].rejection = r.error,
                                      ![a].pc = "rejected"]
                /\ UNCHANGED launcher
           ELSE /\ att' = [att EXCEPT ![a].server = "listening",
                                      ![a].innerAddress = innerAddress,
                                      ![a].options = r.options,
                                      ![a].defaults = r.defaults,
                                      ![a].startArgs = r.startArgs,
                                      ![a].pc = "starting"]
                /\ launcher' = LauncherStart(launcher)
    /\ UNCHANGED <<httpServer, engineListeningAddress, stops, env, meteor, hapi>>

\* The bind fails: the http server emits 'error' itself and the listen
\* callback never runs (the note at lines 102-107).
BindFails(a) ==
    /\ att[a].pc = "binding"
    /\ att[a].server = "binding"
    /\ att' = [att EXCEPT ![a].server = "failed",
                          ![a].serverErrors = @ + 1,
                          ![a].pc = "bindFailed"]
    /\ UNCHANGED <<httpServer, engineListeningAddress, launcher, stops, env, meteor, hapi>>

\* Mutant of StartResolves: the reported address is not stored.
StartResolvesNoStore(a, address) ==
    /\ att[a].pc = "starting"
    /\ att' = [att EXCEPT ![a].reported = address, ![a].pc = "resolved"]
    /\ UNCHANGED <<engineListeningAddress, httpServer, launcher, stops, env, meteor, hapi>>

\* Mutant of StartResolves: an address already stored is kept.
StartResolvesKeepsFirst(a, address) ==
    /\ att[a].pc = "starting"
    /\ engineListeningAddress' =
         IF engineListeningAddress = Unset THEN address ELSE engineListeningAddress
    /\ att' = [att EXCEPT ![a].reported = address, ![a].pc = "resolved"]
    /\ UNCHANGED <<httpServer, launcher, stops, env, meteor, hapi>>

\* launcher.start() resolves and startEngine resumes after its await
\* (line 265): the reported address is stored, startEngine's promise fulfils.
StartResolves(a, address) ==
    /\ att[a].pc = "starting"
    /\ engineListeningAddress' = address
    /\ att' = [att EXCEPT ![a].reported = address, ![a].pc = "resolved"]
    /\ UNCHANGED <<httpServer, launcher, stops, env, meteor, hapi>>

\* launcher.start() rejects: startEngine's promise rejects with its error.
StartRejects(a) ==
    /\ att[a].pc = "starting"
    /\ att' = [att EXCEPT ![a].rejection = Error("StartFailed"), ![a].pc = "rejected"]
    /\ UNCHANGED <<httpServer, engineListeningAddress, launcher, stops, env, meteor, hapi>>

\* Mutant of ThenReaction: listenCallback is called inside the reaction.
ThenReactionCallsNow(a) ==
    /\ att[a].pc = "resolved"
    /\ att' = [att EXCEPT ![a].pc = "done",
                          ![a].ready = IF att[a].callback THEN @ + 1 ELSE @,
                          ![a].seen = IF att[a].callback THEN engineListeningAddress ELSE @]
    /\ UNCHANGED <<httpServer, engineListeningAddress, launcher, stops, env, meteor, hapi>>

\* Line 120: .then(() => listenCallback && process.nextTick(listenCallback))
ThenReaction(a) ==
    /\ att[a].pc = "resolved"
    /\ att' = [att EXCEPT ![a].pc = IF att[a].callback THEN "tickReady" ELSE "done"]
    /\ UNCHANGED <<httpServer, engineListeningAddress, launcher, stops, env, meteor, hapi>>

\* Mutant of CatchReaction: the error is also emitted inside the catch.
CatchReactionEmitsToo(a) ==
    /\ att[a].pc = "rejected"
    /\ att' = [att EXCEPT ![a].pc = "tickError", ![a].errors = @ + 1,
                          ![a].emitted = att[a].rejection]
    /\ UNCHANGED <<httpServer, engineListeningAddress, launcher, stops, env, meteor, hapi>>

\* Lines 121-123: .catch(error => process.nextTick(() => this.emit('error', error)))
CatchReaction(a) ==
    /\ att[a].pc = "rejected"
    /\ att' = [att EXCEPT ![a].pc = "tickError"]
    /\ UNCHANGED <<httpServer, engineListeningAddress, launcher, stops, env, meteor, hapi>>

\* The tick queued at line 120: listenCallback runs and sees the session.
ReadyTick(a) ==
    /\ att[a].pc = "tickReady"
    /\ att' = [att EXCEPT ![a].ready = @ + 1,
                          ![a].seen = engineListeningAddress,
                          ![a].pc = "done"]
    /\ hapi' = IF hapi.attempt = a THEN Resolve(hapi) ELSE hapi
    /\ UNCHANGED <<httpServer, engineListeningAddress, launcher, stops, env, meteor>>

\* Mutant of ErrorTick: the queued tick does not emit.
ErrorTickSwallows(a) ==
    /\ att[a].pc = "tickError"
    /\ att' = [att EXCEPT ![a].pc = "done"]
    /\ UNCHANGED <<httpServer, engineListeningAddress, launcher, stops, env, meteor, hapi>>

\* The tick queued at line 122: this.emit('error', error).
ErrorTick(a) ==
    /\ att[a].pc = "tickError"
    /\ att' = [att EXCEPT ![a].errors = @ + 1,
                          ![a].emitted = att[a].rejection,
                          ![a].pc = "done"]
    /\ hapi' = EmitError(hapi)
    /\ UNCHANGED <<httpServer, engineListeningAddress, launcher, stops, env, meteor>>

-----------------------------------------------------------------------------
(* stop(), lines 129-134.                                                  *)

\* Mutant of StopCall: the server is closed before the launcher is awaited.
StopCallClosesFirst ==
    /\ Len(stops) < env.stops
    /\ launcher' = LauncherStop(launcher)
    /\ stops' = Append(stops, [pc |-> "awaiting", live |-> Live, server |-> httpServer])
    /\ IF httpServer = 0
       THEN UNCHANGED <<att, httpServer>>
       ELSE /\ att' = [att EXCEPT ![httpServer].server = "closed"]
            /\ httpServer' = 0
    /\ UNCHANGED <<engineListeningAddress, env, meteor, hapi>>

\* stop() is called: launcher.stop() is invoked and stop() awaits it.
StopCall ==
    /\ Len(stops) < env.stops
    /\ launcher' = LauncherStop(launcher)
    /\ stops' = Append(stops, [pc |-> "awaiting", live |-> Live, server |-> httpServer])
    /\ UNCHANGED <<att, httpServer, engineListeningAddress, env, meteor, hapi>>

\* launcher.stop() has resolved and stop() resumes: this.httpServer!.close()
\* (a TypeError that rejects stop() when this.httpServer is null), then
\* this.httpServer = null.
StopResumes(i) ==
    /\ stops[i].pc = "awaiting"
    /\ IF httpServer = 0
       THEN /\ stops' = [stops EXCEPT ![i].pc = "rejected"]
            /\ UNCHANGED <<att, httpServer>>
       ELSE /\ att' = [att EXCEPT ![httpServer].server = "closed"]
            /\ httpServer' = 0
            /\ stops' = [stops EXCEPT ![i].pc = "done"]
    /\ UNCHANGED <<engineListeningAddress, launcher, env, meteor, hapi>>

\* launcher.stop() has rejected: the await of line 130 throws, stop() rejects
\* and lines 131-132 are not run.
StopFails(i) ==
    /\ stops[i].pc = "awaiting"
    /\ stops' = [stops EXCEPT ![i].pc = "failed"]
    /\ UNCHANGED <<att, httpServer, engineListeningAddress, launcher, env, meteor, hapi>>

-----------------------------------------------------------------------------

Next ==
    \/ \E options \in OptionChoices, callback \in CallbackChoices : Listen(options, callback)
    \/ \E a \in 1..Len(att), port \in InnerPorts : BindConfirmed(a, port)
    \/ \E a \in 1..Len(att) : BindFails(a)
    \/ \E a \in 1..Len(att), address \in Addresses : StartResolves(a, address)
    \/ \E a \in 1..Len(att) : StartRejects(a)
    \/ \E a \in 1..Len(att) : ThenReaction(a)
    \/ \E a \in 1..Len(att) : CatchReaction(a)
    \/ \E a \in 1..Len(att) : ReadyTick(a)
    \/ \E a \in 1..Len(att) : ErrorTick(a)
    \/ StopCall
    \/ \E i \in 1..Len(stops) : StopResumes(i)

Spec == Init /\ [][Next]_vars

SpecOne == InitOne /\ [][Next]_vars

\* A session that calls listen() once and stop() several times, with a
\* launcher whose stop() may also fail.
InitStop ==
    /\ att = <<>>
    /\ httpServer = 0
    /\ engineListeningAddress = Unset
    /\ launcher = [starts |-> 0, stops |-> 0]
    /\ stops = <<>>
    /\ env = [listens |-> 1, stops |-> MaxStops, options |-> "narrow"]
    /\ meteor = NoMeteor
    /\ hapi = NoHapi

NextStop ==
    \/ Next
    \/ \E i \in 1..Len(stops) : StopFails(i)

SpecStop == InitStop /\ [][NextStop]_vars

-----------------------------------------------------------------------------
(* meteorListen(webApp, options), lines 138-193.  The server of webApp is  *)
(* the server of every listen() the polyfill forwards.                     *)

MaxServerListens == 3   \* invocations of the server's listen / startListening

\* What the framework passes when it asks its server to listen.
ListenOptionChoices ==
    [ port : { Undefined, Num(80) },
      host : { Undefined },
      path : { Undefined, Str(<<"/", "s">>) },
      pipePath : { Undefined, Str(PipeFoo) } ]

\* Lines 144-150: what the polyfill throws for, or NoError.
PolyfillError(listenOptions) ==
    IF listenOptions.path # Undefined
    THEN Error("NoListeningOnPath")
    ELSE IF listenOptions.port = Undefined /\ Falsy(listenOptions.pipePath)
    THEN Error("NeedsPortOrPipeName")
    ELSE NoError

\* Lines 147-159 and 160-167: { ...options, ...engineListenOptions, httpServer }
ForwardedOptions(launcherOptions, listenOptions) ==
    IF listenOptions.port = Undefined
    THEN [ port |-> Undefined, host |-> Undefined,
           pipePath |-> listenOptions.pipePath,
           sources |-> {"httpServer"}, launcherOptions |-> launcherOptions ]
    ELSE [ port |-> listenOptions.port, host |-> listenOptions.host,
           pipePath |-> Undefined,
           sources |-> {"httpServer"}, launcherOptions |-> launcherOptions ]

\* Mutant of RestoredSlot: the installed function stays in place.
KeptSlot(slot) == slot

\* Line 190: webApp.httpServer.listen = originalListen, before the polyfill
\* is run.
RestoredSlot(slot) == "original"

\* meteorListen(webApp, options): webApp.startListening is replaced when it
\* exists (lines 172-181), otherwise webApp.httpServer.listen (184-192).
MeteorListen(hasStartListening, launcherOptions) ==
    /\ meteor.installed = "no"
    /\ meteor' = [meteor EXCEPT
                    !.installed = IF hasStartListening THEN "hook" ELSE "patch",
                    !.slot = IF hasStartListening THEN "original" ELSE "polyfill",
                    !.options = launcherOptions]
    /\ UNCHANGED <<att, httpServer, engineListeningAddress, launcher, stops, env, hapi>>

\* The function makeListenPolyfill returns, run with the shim's record m: it
\* throws, or forwards to this.listen(), whose bind call at line 108 goes to
\* whatever the server's listen is by then: the original method, or the
\* installed function again (which never returns: the call recurses).
ListenPolyfill(listenOptions, cb, m) ==
    IF PolyfillError(listenOptions) # NoError
    THEN /\ meteor' = [m EXCEPT !.threw = @ + 1]
         /\ UNCHANGED <<att, httpServer>>
    ELSE LET options == ForwardedOptions(m.options, listenOptions)
         IN  IF m.slot = "original"
             THEN /\ ListenCall(options, cb)
                  /\ meteor' = [m EXCEPT
                        !.forwarded = @ + 1,
                        !.native = IF ListenError(options) = NoError THEN @ + 1 ELSE @]
             ELSE /\ att' = Append(att, Attempt(options, cb, "thrown",
                                                Error("RangeError"), "unbound"))
                  /\ httpServer' = Len(att) + 1
                  /\ meteor' = [m EXCEPT !.forwarded = @ + 2, !.intercepted = @ + 1]

\* The framework invokes webApp.httpServer.listen(listenOptions, cb) on a
\* webApp that was patched: the installed function (lines 186-192) or the
\* original method runs.
ServerListen(listenOptions, cb) ==
    /\ meteor.installed = "patch"
    /\ meteor.calls < MaxServerListens
    /\ IF meteor.slot = "polyfill"
       THEN /\ PolyfillError(listenOptions) # NoError \/ Len(att) < env.listens
            /\ ListenPolyfill(listenOptions, cb,
                  [meteor EXCEPT !.calls = @ + 1, !.args = listenOptions,
                                 !.intercepted = @ + 1,
                                 !.slot = RestoredSlot(meteor.slot)])
       ELSE /\ meteor' = [meteor EXCEPT !.calls = @ + 1, !.native = @ + 1]
            /\ UNCHANGED <<att, httpServer>>
    /\ UNCHANGED <<engineListeningAddress, launcher, stops, env, hapi>>

\* The framework invokes webApp.startListening(httpServer, listenOptions, cb)
\* on a webApp whose hook was replaced (lines 173-179).
StartListening(listenOptions, cb) ==
    /\ meteor.installed = "hook"
    /\ meteor.calls < MaxServerListens
    /\ PolyfillError(listenOptions) # NoError \/ Len(att) < env.listens
    /\ ListenPolyfill(listenOptions, cb,
          [meteor EXCEPT !.calls = @ + 1, !.args = listenOptions,
                         !.intercepted = @ + 1])
    /\ UNCHANGED <<engineListeningAddress, launcher, stops, env, hapi>>

NextMeteor ==
    \/ \E hasStartListening \in BOOLEAN, launcherOptions \in WideLauncherOptions :
          MeteorListen(hasStartListening, launcherOptions)
    \/ \E listenOptions \in ListenOptionChoices : ServerListen(listenOptions, TRUE)
    \/ \E listenOptions \in ListenOptionChoices : StartListening(listenOptions, TRUE)
    \/ \E a \in 1..Len(att), port \in InnerPorts : BindConfirmed(a, port)
    \/ \E a \in 1..Len(att) : BindFails(a)
    \/ \E a \in 1..Len(att), address \in Addresses : StartResolves(a, address)
    \/ \E a \in 1..Len(att) : StartRejects(a)
    \/ \E a \in 1..Len(att) : ThenReaction(a)
    \/ \E a \in 1..Len(att) : CatchReaction(a)
    \/ \E a \in 1..Len(att) : ReadyTick(a)
    \/ \E a \in 1..Len(att) : ErrorTick(a)

\* A session on which meteorListen is called, and the framework's calls.
SpecMeteor == Init /\ [][NextMeteor]_vars

-----------------------------------------------------------------------------
(* hapiListener(options), lines 197-218.                                   *)

MaxSubscriptions == 3   \* listeners the framework adds to the returned server

\* The options hapiListener is called with (HapiListenOptions).
HapiOptionChoices ==
    [ port : { Undefined, Num(80) },
      pipePath : { Undefined },
      host : { Undefined },
      launcherOptions : { NoLauncherOptions } ]

\* Events the framework subscribes to on the server it was returned.
ServerEvents == { "listening", "close" }

\* Lines 198-203, up to the await: a new server, this.once('error', reject)
\* and this.listen({...options, httpServer}, resolve) inside the executor of
\* p; a throw of listen() there rejects p.
HapiListener(options) ==
    /\ hapi.p = "none"
    /\ Len(att) < env.listens
    /\ LET copy == [ port |-> options.port, pipePath |-> options.pipePath,
                     host |-> options.host, sources |-> {"httpServer"},
                     launcherOptions |-> options.launcherOptions ]
       IN  /\ ListenCall(copy, TRUE)
           /\ hapi' = [hapi EXCEPT
                         !.attempt = Len(att) + 1,
                         !.errorListener = TRUE,
                         !.result = "pending",
                         !.p = IF ListenError(copy) # NoError
                               THEN "rejected" ELSE "pending"]
    /\ UNCHANGED <<engineListeningAddress, launcher, stops, env, meteor>>

\* Line 203 onwards: `await p` resumes.  With p resolved the watcher is put
\* on 'newListener' (line 216) and the server returned; with p rejected the
\* await throws and hapiListener's promise rejects.
HapiResumes ==
    /\ hapi.result = "pending"
    /\ hapi.p \in {"resolved", "rejected"}
    /\ hapi' = IF hapi.p = "resolved"
               THEN [hapi EXCEPT !.watcher = TRUE, !.result = "returned"]
               ELSE [hapi EXCEPT !.result = "rejected"]
    /\ UNCHANGED <<att, httpServer, engineListeningAddress, launcher, stops, env, meteor>>

\* Mutant of CallListeningImmediately: the watcher is not detached.
CallListeningKeepsWatcher(h, event) ==
    IF event # "listening" THEN h
    ELSE [h EXCEPT !.queued = @ + 1]

\* Lines 209-215: callListeningImmediately(event, listening), the listener
\* of 'newListener'.
CallListeningImmediately(h, event) ==
    IF event # "listening" THEN h
    ELSE [h EXCEPT !.watcher = FALSE, !.queued = @ + 1]

\* The framework adds a listener for `event` to the server it was returned:
\* the server emits 'newListener' to the watcher, if it is attached.
AddListener(event) ==
    /\ hapi.result = "returned"
    /\ hapi.subscribed.listening + hapi.subscribed.other < MaxSubscriptions
    /\ LET counted == IF event = "listening"
                      THEN [hapi EXCEPT !.subscribed.listening = @ + 1]
                      ELSE [hapi EXCEPT !.subscribed.other = @ + 1]
       IN  hapi' = IF hapi.watcher
                   THEN CallListeningImmediately(counted, event)
                   ELSE counted
    /\ UNCHANGED <<att, httpServer, engineListeningAddress, launcher, stops, env, meteor>>

\* The tick queued at line 214: httpServer.emit('listening').
ListeningTick ==
    /\ hapi.queued > 0
    /\ hapi' = [hapi EXCEPT !.queued = @ - 1, !.emitted = @ + 1]
    /\ UNCHANGED <<att, httpServer, engineListeningAddress, launcher, stops, env, meteor>>

NextHapi ==
    \/ \E options \in HapiOptionChoices : HapiListener(options)
    \/ \E options \in OptionChoices, callback \in CallbackChoices : Listen(options, callback)
    \/ \E a \in 1..Len(att), port \in InnerPorts : BindConfirmed(a, port)
    \/ \E a \in 1..Len(att) : BindFails(a)
    \/ \E a \in 1..Len(att), address \in Addresses : StartResolves(a, address)
    \/ \E a \in 1..Len(att) : StartRejects(a)
    \/ \E a \in 1..Len(att) : ThenReaction(a)
    \/ \E a \in 1..Len(att) : CatchReaction(a)
    \/ \E a \in 1..Len(att) : ReadyTick(a)
    \/ \E a \in 1..Len(att) : ErrorTick(a)
    \/ HapiResumes
    \/ \E event \in ServerEvents : AddListener(event)
    \/ ListeningTick

\* A session on which hapiListener is called, besides listen().
SpecHapi == Init /\ [][NextHapi]_vars

-----------------------------------------------------------------------------
(* Vocabulary of the properties.                                           *)

Attempts == 1..Len(att)

PortGiven(options) == options.port # Undefined
PipePathGiven(options) == options.pipePath # Undefined
ExactlyOneTarget(options) == PortGiven(options) # PipePathGiven(options)
BothTargets(options) == PortGiven(options) /\ PipePathGiven(options)
NeitherTarget(options) == ~PortGiven(options) /\ ~PipePathGiven(options)

\* The proxy's start was invoked for the attempt and has resolved.
StartResolved(r) == r.reported # Unset

\* The proxy's start was invoked for the attempt and has rejected.
StartRejected(r) == r.rejection.kind = "StartFailed"

\* launcher.start() has been invoked for the attempt.
StartInvoked(r) == r.defaults # NoDefaults

\* A string parseInt reads as NaN and that lacks the named-pipe prefix.
UnreadablePort(options) ==
    /\ IsString(options.port)
    /\ IsNaN(ParseInt(options.port.s))
    /\ ~StartsWith(options.port.s, winPipePrefix \o <<"\\">>)

\* A non-empty string of decimal digits, and the integer it denotes.
AllDigits(chars) == Len(chars) > 0 /\ \A i \in 1..Len(chars) : chars[i] \in Digits

RECURSIVE DecimalValue(_)
DecimalValue(chars) ==
    IF chars = <<>> THEN 0
    ELSE 10 * DecimalValue(SubSeq(chars, 1, Len(chars) - 1)) + DigitValue(chars[Len(chars)])

\* Some listen of the session is awaiting its bind or its handshake.
InFlight == \E a \in Attempts : att[a].pc \in {"binding", "starting"}

-----------------------------------------------------------------------------
(* C1.  A listen(options, onReady) call on an idle session, with exactly   *)
(* one of port/pipePath and exactly one server source, whose bind was      *)
(* confirmed and whose proxy start resolved: the session holds the address *)
(* the proxy reported from then on, no error is reported, onReady runs at  *)
(* most once, has run exactly once when the attempt is over, and saw the   *)
(* reported address in engineListeningAddress when it ran.                 *)

C1_ReadyOnceAfterAddress ==
    \A a \in Attempts :
        LET r == att[a]
        IN  ( /\ ExactlyOneTarget(r.given)
              /\ AppsProvided(r.given) = 1
              /\ r.callback
              /\ StartResolved(r) )
            => /\ r.pc \in {"resolved", "tickReady", "done"}
               /\ r.thrown = NoError /\ r.errors = 0 /\ r.serverErrors = 0
               /\ r.server \in {"listening", "closed"}
               /\ engineListeningAddress = r.reported
               /\ r.ready <= 1
               /\ (r.pc = "done" <=> r.ready = 1)
               /\ (r.ready = 1 => r.seen = r.reported)

C1_Witness ==
    \E a \in Attempts :
        /\ ExactlyOneTarget(att[a].given) /\ AppsProvided(att[a].given) = 1
        /\ att[a].callback /\ att[a].pc = "done" /\ att[a].ready = 1
        /\ att[a].seen = "A2" /\ engineListeningAddress = "A2"
        /\ att[a].server = "listening"

-----------------------------------------------------------------------------
(* C2.  A listen() call given both port and pipePath, or neither, throws   *)
(* synchronously: no bind of the server is requested and no 'error' event  *)
(* is emitted for it.                                                      *)

C2_BothOrNeitherThrowsSync ==
    \A a \in Attempts :
        (BothTargets(att[a].given) \/ NeitherTarget(att[a].given))
        => /\ att[a].pc = "thrown"
           /\ att[a].server = "unbound"
           /\ att[a].errors = 0

-----------------------------------------------------------------------------
(* C3.  When a stop() called on a Live session completes, the public       *)
(* listening address is unset, the session references no server and the    *)
(* server it referenced is closed.                                         *)

C3_StopFromLiveClearsSession ==
    [][ \A i \in 1..Len(stops) :
          (stops[i].pc = "awaiting" /\ stops[i].live /\ stops'[i].pc = "done")
          => /\ engineListeningAddress' = Unset
             /\ httpServer' = 0
             /\ att'[stops[i].server].server = "closed" ]_vars

-----------------------------------------------------------------------------
(* C4.  A listen() call with one server source whose port is a string that *)
(* is neither numeric nor pipe-prefixed throws synchronously an error that *)
(* names the string: no bind is requested, no 'error' event is emitted.    *)

C4_UnreadablePortThrowsSync ==
    \A a \in Attempts :
        (UnreadablePort(att[a].given) /\ AppsProvided(att[a].given) = 1)
        => /\ att[a].pc = "thrown"
           /\ att[a].thrown.arg = att[a].given.port.s
           /\ att[a].server = "unbound"
           /\ att[a].errors = 0

-----------------------------------------------------------------------------
(* C5.  A listen() call given no server source, or two or more, throws     *)
(* synchronously: the call leaves this.httpServer, the launcher and every  *)
(* earlier attempt as they were, and its server is never bound.            *)

C5_BadSourcesStep ==
    (Len(att') = Len(att) + 1 /\ AppsProvided(att'[Len(att')].given) # 1)
    => /\ att'[Len(att')].pc = "thrown"
       /\ att'[Len(att')].thrown # NoError
       /\ httpServer' = httpServer
       /\ launcher' = launcher
       /\ engineListeningAddress' = engineListeningAddress
       /\ \A b \in Attempts : att'[b] = att[b]

C5_BadSourcesNeverBound ==
    \A a \in Attempts :
        AppsProvided(att[a].given) # 1
        => /\ att[a].pc = "thrown"
           /\ att[a].server = "unbound"
           /\ httpServer # a

C5_BadSourcesThrowSync == []C5_BadSourcesNeverBound /\ [][C5_BadSourcesStep]_vars

C5_Witness ==
    \E a \in Attempts :
        /\ Cardinality(att[a].given.sources) = 2
        /\ att[a].given.port = Num(80)
        /\ att[a].pc = "thrown"
        /\ att[a].thrown = Error("MustOnlyProvideOneApp")

-----------------------------------------------------------------------------
(* C6.  When the proxy's start rejects, the attempt's onReady is never     *)
(* invoked, exactly one 'error' event is emitted for it (none before the   *)
(* queued tick has run, one after), and the attempt leaves its server      *)
(* bound and referenced: only a completed stop() closes it.                *)

C6_StartRejected ==
    \A a \in Attempts :
        LET r == att[a]
        IN  StartRejected(r)
            => /\ r.ready = 0
               /\ r.pc \in {"rejected", "tickError", "done"}
               /\ r.errors = (IF r.pc = "done" THEN 1 ELSE 0)
               /\ (r.pc = "done" => r.emitted = Error("StartFailed"))
               /\ \/ r.server = "listening" /\ httpServer = a
                  \/ /\ r.server = "closed" /\ httpServer = 0
                     /\ \E i \in 1..Len(stops) : stops[i].pc = "done"

C6_Witness ==
    \E a \in Attempts :
        /\ StartRejected(att[a]) /\ att[a].callback
        /\ att[a].pc = "done" /\ att[a].errors = 1 /\ att[a].ready = 0
        /\ att[a].server = "listening" /\ httpServer = a

-----------------------------------------------------------------------------
(* C7.  As claimed: every payload handed to the proxy's start has exactly  *)
(* one frontend target: frontendPort and no frontendPipePath, or           *)
(* frontendPipePath and neither frontendPort nor frontendHost.             *)

-----------------------------------------------------------------------------
(* C8.  A listen attempt reports failure through one channel only: a       *)
(* synchronous throw, or one 'error' event (of the session for a failed    *)
(* startup, of the http server for a failed bind).  Never a throw and an   *)
(* event, never two events; an attempt that is over and failed has used    *)
(* exactly one, an attempt whose start resolved none.                      *)

Reports(r) == (IF r.thrown # NoError THEN 1 ELSE 0) + r.errors + r.serverErrors

C8_OneFailureChannel ==
    \A a \in Attempts :
        LET r == att[a]
        IN  /\ Reports(r) <= 1
            /\ (r.thrown # NoError <=> r.pc = "thrown")
            /\ (r.pc \in {"thrown", "bindFailed"} => Reports(r) = 1)
            /\ (r.pc = "done" /\ r.rejection # NoError => r.errors = 1)
            /\ (StartResolved(r) => Reports(r) = 0)

C8_Witness ==
    \E a \in Attempts :
        /\ att[a].pc = "done"
        /\ att[a].rejection.kind = "OnlyOneOfPortAndPipePath"
        /\ att[a].errors = 1
        /\ att[a].thrown = NoError

-----------------------------------------------------------------------------
(* C9.  A listen() call made while an earlier listen of the session is in  *)
(* flight or the session is Live is rejected: it throws, and               *)
(* this.httpServer keeps referencing the server it referenced.             *)

C9_SecondListenRejected ==
    [][ (Len(att') = Len(att) + 1 /\ (InFlight \/ Live))
        => /\ att'[Len(att')].pc = "thrown"
           /\ httpServer' = httpServer ]_vars

-----------------------------------------------------------------------------
(* C10.  A port given as a string of decimal digits is treated as the      *)
(* integer it denotes: listen() throws the same error or none, and once    *)
(* the bind is confirmed startEngine leaves the same port and pipePath in  *)
(* the options, rejects with the same error or none, and hands the proxy   *)
(* the same payload, as for that integer with the other options equal.     *)

AsInteger(options) == [options EXCEPT !.port = Num(DecimalValue(options.port.s))]

C10_DigitStringAsInteger ==
    \A a \in Attempts :
        LET r == att[a]
            byInteger == StartEngineSync(AsInteger(r.given), r.innerAddress)
        IN  (IsString(r.given.port) /\ AllDigits(r.given.port.s))
            => /\ r.thrown = ListenError(AsInteger(r.given))
               /\ r.innerAddress # NoAddress
                    => /\ r.options = byInteger.options
                       /\ r.defaults = byInteger.defaults
                       /\ StartInvoked(r) <=> byInteger.error = NoError
                       /\ ~StartInvoked(r) => r.rejection = byInteger.error

C10_Witness ==
    \E a \in Attempts :
        /\ att[a].given.port = Str(<<"8", "0">>)
        /\ att[a].pc = "done" /\ att[a].ready = 1
        /\ att[a].defaults.frontendPort = Num(80)

-----------------------------------------------------------------------------
(* C11.  A string port that does not read as a number is taken as a named  *)
(* pipe exactly when it begins with \\.\pipe\ : with that prefix and no    *)
(* pipePath given, the payload handed to the proxy carries the string as   *)
(* frontendPipePath and has no frontendPort; without the prefix the        *)
(* attempt is rejected naming the string and the proxy's start is never    *)
(* invoked for it.                                                         *)

\* The string has no leading decimal integer: after an optional sign its
\* first character is not a digit.
NonNumeric(chars) ==
    LET body == IF chars # <<>> /\ chars[1] \in {"+", "-"} THEN Tail(chars) ELSE chars
    IN  body = <<>> \/ body[1] \notin Digits

\* The nine characters \\.\pipe\ open the string.
BeginsWithPipePrefix(chars) ==
    /\ Len(chars) >= 9
    /\ SubSeq(chars, 1, 9) = <<"\\", "\\", ".", "\\", "p", "i", "p", "e", "\\">>

C11_NonNumericPortIsPipeIffPrefixed ==
    \A a \in Attempts :
        LET r == att[a]
        IN  (/\ IsString(r.given.port)
             /\ NonNumeric(r.given.port.s)
             /\ r.innerAddress # NoAddress)
            => /\ (BeginsWithPipePrefix(r.given.port.s) /\ ~PipePathGiven(r.given))
                    => /\ StartInvoked(r)
                       /\ r.defaults.frontendPipePath = r.given.port
                       /\ r.defaults.frontendPort = Undefined
               /\ ~BeginsWithPipePrefix(r.given.port.s)
                    => /\ ~StartInvoked(r)
                       /\ r.reported = Unset
                       /\ r.rejection = ErrorNaming("PortMustBeIntegerOrPipe",
                                                    r.given.port.s)

C11_Witness ==
    \E a \in Attempts :
        /\ att[a].given.port = Str(PipeFoo)
        /\ att[a].given.pipePath = Undefined
        /\ att[a].pc = "done" /\ att[a].ready = 1
        /\ att[a].defaults.frontendPipePath = Str(PipeFoo)

-----------------------------------------------------------------------------
(* C14.  During stop() the embedding server is closed and the session's    *)
(* reference to it cleared only after the proxy's stop has completed: a    *)
(* step that closes a server or clears the reference is the resumption of  *)
(* a stop() whose launcher.stop() was invoked before and has resolved, and *)
(* as long as every launcher.stop() is still pending or has failed, no     *)
(* server is closed and a reference once set stays set.                    *)

\* Servers closed so far.
ClosedServers == {a \in Attempts : att[a].server = "closed"}

\* stop() calls whose launcher.stop() has resolved.
ResumedStops == {i \in 1..Len(stops) : stops[i].pc \in {"done", "rejected"}}

C14_ClosingStep ==
    ((\E a \in 1..Len(att) : att[a].server # "closed" /\ att'[a].server = "closed")
        \/ (httpServer # 0 /\ httpServer' = 0))
    => \E i \in 1..Len(stops) :
          /\ stops[i].pc = "awaiting" /\ stops'[i].pc = "done"
          /\ launcher.stops >= i /\ launcher' = launcher

C14_NothingClosedBefore ==
    /\ Cardinality(ClosedServers) <= Cardinality(ResumedStops)
    /\ ResumedStops = {}
         => \A a \in Attempts :
               att[a].server \in {"binding", "listening"} => httpServer # 0

C14_CloseAfterProxyStop == []C14_NothingClosedBefore /\ [][C14_ClosingStep]_vars

C14_Witness ==
    /\ Len(stops) = 2
    /\ stops[1].pc = "failed" /\ stops[2].pc = "done"
    /\ \E a \in Attempts : att[a].server = "closed" /\ att[a].ready = 1
    /\ httpServer = 0

-----------------------------------------------------------------------------
(* C12.  stop() called on an Idle session (no server referenced, no listen *)
(* in flight: never listened, or already stopped) is reported to its       *)
(* caller as an error, once, and changes nothing: the call does not touch  *)
(* the proxy collaborator, and when it settles it settles as a rejection   *)
(* with the server reference, the public address and the servers as they   *)
(* were.                                                                   *)

Idle == httpServer = 0 /\ ~InFlight

C12_IdleStopStep ==
    /\ (Len(stops') > Len(stops) /\ Idle)
         => /\ launcher' = launcher
            /\ UNCHANGED <<att, httpServer, engineListeningAddress>>
    /\ \A i \in 1..Len(stops) :
          (stops[i].server = 0 /\ stops[i].pc = "awaiting" /\ stops'[i].pc # "awaiting")
          => /\ stops'[i].pc \in {"rejected", "failed"}
             /\ UNCHANGED <<att, httpServer, engineListeningAddress, launcher>>

C12_IdleStopIsErrorOnly == [][C12_IdleStopStep]_vars

-----------------------------------------------------------------------------
(* C13.  A session cleanly stopped from Live can be restarted: a further   *)
(* listen() made then, with options listen() accepts, whose bind is        *)
(* confirmed and whose proxy start resolves, and after which listen() has  *)
(* not been called again, holds the address reported by                    *)
(* that second start in engineListeningAddress, reports no error, runs its *)
(* own onReady at most once and exactly once when the attempt is over,     *)
(* with that address visible, and is Live again (its server listening and  *)
(* referenced) unless stop() was called on it in the meantime.             *)

\* stop() was called while the session referenced the server of attempt a.
StoppedAgain(a) == \E i \in 1..Len(stops) : stops[i].server = a

C13_RestartAfterCleanStop ==
    \A a \in Attempts :
        LET r == att[a]
        IN  (r.restart /\ StartResolved(r) /\ a = Len(att))
            => /\ engineListeningAddress = r.reported
               /\ r.errors = 0 /\ r.rejection = NoError
               /\ r.ready <= 1
               /\ r.pc = "done"
                    => /\ r.ready = 1
                       /\ r.seen = r.reported
               /\ ~StoppedAgain(a) => (r.server = "listening" /\ httpServer = a)
               /\ \A b \in Attempts : b # a => att[b].ready <= 1

C13_Witness ==
    /\ Len(att) = 2
    /\ att[2].restart
    /\ att[1].reported = "A1" /\ att[1].ready = 1 /\ att[1].server = "closed"
    /\ att[2].reported = "A2" /\ att[2].ready = 1 /\ att[2].pc = "done"
    /\ att[2].server = "listening" /\ httpServer = 2
    /\ engineListeningAddress = "A2"

-----------------------------------------------------------------------------
(* C15.  onReady and the 'error' event are each delivered on a turn of     *)
(* their own: the step in which an attempt's onReady runs or its error is  *)
(* emitted is not the listen() call, not the bind confirmation and not the *)
(* settling of the proxy start (those have all happened in earlier steps), *)
(* it is the tick an earlier step queued, and it does nothing but deliver. *)

\* onReady runs, or 'error' is emitted, for attempt a in this step.
Delivered(a) ==
    \/ att'[a].ready > att[a].ready
    \/ att'[a].errors > att[a].errors

C15_DeliveryStep ==
    /\ Len(att') > Len(att)
         => LET r == att'[Len(att')] IN r.ready = 0 /\ r.errors = 0
    /\ \A a \in 1..Len(att) :
          Delivered(a)
          => /\ Len(att') = Len(att)
             /\ att[a].pc \in {"tickReady", "tickError"}
             /\ att[a].innerAddress # NoAddress
             /\ att'[a].innerAddress = att[a].innerAddress
             /\ att'[a].reported = att[a].reported
             /\ att'[a].rejection = att[a].rejection
             /\ att'[a].server = att[a].server
             /\ (att[a].reported # Unset) # (att[a].rejection # NoError)
             /\ UNCHANGED <<httpServer, engineListeningAddress, launcher, stops>>

C15_DeliveredOnFreshTurn == [][C15_DeliveryStep]_vars

C15_Witness ==
    \E a, b \in Attempts :
        /\ att[a].ready = 1 /\ att[a].pc = "done"
        /\ att[b].errors = 1 /\ att[b].pc = "done"
        /\ att[b].rejection = Error("StartFailed")

-----------------------------------------------------------------------------
(* C18.  Under every interleaving of listen() and stop(), also with stop() *)
(* called while the bind or the proxy handshake is in flight: in the step  *)
(* in which an attempt's onReady runs, the attempt's server is listening   *)
(* (bound and not closed), the session references that server and the      *)
(* public address is set; onReady never runs for a server stop() closed.   *)

C18_ReadyStep ==
    \A a \in 1..Len(att) :
        (Len(att') = Len(att) /\ att'[a].ready > att[a].ready)
        => /\ att[a].server = "listening"
           /\ att'[a].server = "listening"
           /\ httpServer = a
           /\ engineListeningAddress # Unset

C18_ReadyOnlyWhileServing == [][C18_ReadyStep]_vars

-----------------------------------------------------------------------------
(* C19.  A listen attempt leaves the options the caller supplied as they   *)
(* were: the options object still holds the port and the pipePath that     *)
(* were passed, its launcherOptions and their extraArgs list are not       *)
(* modified, and the -defaults argument is appended only to the copy that  *)
(* is handed to the proxy's start.                                         *)

C19_OptionsLeftUnchanged ==
    \A a \in Attempts :
        LET r == att[a]
        IN  /\ r.options.port = r.given.port
            /\ r.options.pipePath = r.given.pipePath
            /\ r.options.launcherOptions = r.given.launcherOptions
            /\ StartInvoked(r)
                 => /\ Len(r.startArgs.extraArgs) = Len(r.given.launcherOptions.extraArgs) + 1
                    /\ r.startArgs.extraArgs[Len(r.startArgs.extraArgs)]
                         = ExtraArg("-defaults", <<r.defaults>>)

-----------------------------------------------------------------------------
(* C16.  The patch meteorListen puts on a webApp without startListening    *)
(* intercepts only the first invocation of the server's listen: once the   *)
(* server's listen has been invoked, one invocation has been intercepted,  *)
(* the original method is back in place, listen() has been forwarded       *)
(* exactly once with its bind call reaching the original method, and every *)
(* later invocation has gone to the original method.                       *)

C16_FirstCallForwardedOnce ==
    (meteor.installed = "patch" /\ meteor.calls >= 1)
    => /\ meteor.intercepted = 1
       /\ meteor.slot = "original"
       /\ meteor.forwarded = 1
       /\ meteor.native = meteor.calls

(* C16, amended.  As above, but listen() is forwarded at most once: exactly *)
(* once when the intercepted invocation names a port or a pipe name and no  *)
(* path, and not at all when it does not (the shim throws, after it has put *)
(* the original method back).  Step by step: the invocation made while the  *)
(* patch is in place is intercepted, restores the original and either       *)
(* forwards (one new attempt of the session, whose bind is requested from   *)
(* the original method) or throws; an invocation made later reaches the     *)
(* original method and does not touch the session.                          *)

\* The invocation names a port or a pipe name, and no path.
Forwardable(listenOptions) ==
    /\ listenOptions.path = Undefined
    /\ listenOptions.port # Undefined \/ listenOptions.pipePath # Undefined

C16_PatchState ==
    meteor.installed = "patch"
    => /\ meteor.calls = 0
            => /\ meteor.slot = "polyfill"
               /\ meteor.intercepted = 0 /\ meteor.forwarded = 0
               /\ meteor.native = 0 /\ att = <<>>
       /\ meteor.calls >= 1
            => /\ meteor.slot = "original"
               /\ meteor.intercepted = 1
               /\ meteor.forwarded + meteor.threw = 1
               /\ meteor.native = (meteor.calls - 1) + meteor.forwarded
               /\ Len(att) = meteor.forwarded
               /\ \A a \in Attempts :
                     /\ att[a].thrown = NoError
                     /\ att[a].server # "unbound"
                     /\ att[a].given.sources = {"httpServer"}

C16_PatchStep ==
    (meteor.installed = "patch" /\ meteor'.calls = meteor.calls + 1)
    => IF meteor.calls = 0
       THEN /\ meteor'.intercepted = 1
            /\ meteor'.slot = "original"
            /\ IF Forwardable(meteor'.args)
               THEN /\ meteor'.forwarded = 1 /\ meteor'.threw = 0
                    /\ meteor'.native = 1
                    /\ Len(att') = 1 /\ att'[1].server = "binding"
                    /\ httpServer' = 1
               ELSE /\ meteor'.forwarded = 0 /\ meteor'.threw = 1
                    /\ meteor'.native = 0
                    /\ UNCHANGED <<att, httpServer>>
       ELSE /\ meteor'.intercepted = meteor.intercepted
            /\ meteor'.forwarded = meteor.forwarded
            /\ meteor'.threw = meteor.threw
            /\ meteor'.native = meteor.native + 1
            /\ meteor'.slot = "original"
            /\ UNCHANGED <<att, httpServer>>

C16_OnlyFirstCallIntercepted == []C16_PatchState /\ [][C16_PatchStep]_vars

C16_Witness ==
    /\ meteor.installed = "patch"
    /\ meteor.calls = 3 /\ meteor.intercepted = 1 /\ meteor.forwarded = 1
    /\ meteor.native = 3
    /\ Len(att) = 1 /\ att[1].pc = "done" /\ att[1].ready = 1

-----------------------------------------------------------------------------
(* C17.  On the server hapiListener returned, 'listening' is emitted by    *)
(* the readiness shim exactly once in total: nothing is emitted or queued  *)
(* before the first listener for 'listening' is added; adding it detaches  *)
(* the watcher and queues one emission, which happens in a later step of   *)
(* its own; adding listeners for other events changes nothing; adding      *)
(* further listeners for 'listening' queues and emits nothing more.        *)

C17_ShimState ==
    /\ hapi.emitted + hapi.queued <= 1
    /\ hapi.emitted + hapi.queued = 1 <=> hapi.subscribed.listening >= 1
    /\ hapi.watcher <=> (hapi.result = "returned" /\ hapi.subscribed.listening = 0)

C17_ShimStep ==
    /\ hapi'.emitted > hapi.emitted
         => /\ hapi.queued = 1 /\ hapi'.queued = 0 /\ hapi'.emitted = 1
            /\ hapi'.subscribed = hapi.subscribed
            /\ ~hapi.watcher
    /\ hapi'.subscribed.other > hapi.subscribed.other
         => /\ hapi'.queued = hapi.queued /\ hapi'.emitted = hapi.emitted
            /\ hapi'.watcher = hapi.watcher
    /\ hapi'.subscribed.listening > hapi.subscribed.listening
         => /\ hapi'.emitted = hapi.emitted
            /\ ~hapi'.watcher
            /\ hapi'.queued = IF hapi.subscribed.listening = 0 THEN 1 ELSE hapi.queued

C17_ListeningEmittedOnce == []C17_ShimState /\ [][C17_ShimStep]_vars

C17_Witness ==
    /\ hapi.result = "returned"
    /\ hapi.subscribed.listening = 2 /\ hapi.subscribed.other = 1
    /\ hapi.emitted = 1 /\ hapi.queued = 0

-----------------------------------------------------------------------------
(* C20.  The promise hapiListener returns settles exactly once per call:   *)
(* once settled it does not change; it resolves with the server only after *)
(* the session is Live (the address its listen was reported is stored); it *)
(* rejects, without installing the readiness shim, if an 'error' event of  *)
(* the session is emitted first; and after it has resolved, the 'error'    *)
(* listener it registered takes no later 'error' event of the session.     *)

C20_SettledState ==
    /\ hapi.p = "resolved"
         => /\ StartResolved(att[hapi.attempt])
            /\ engineListeningAddress # Unset
    /\ hapi.result = "returned"
         => /\ hapi.p = "resolved"
            /\ att[hapi.attempt].ready = 1
    /\ hapi.result = "rejected"
         => /\ hapi.p = "rejected"
            /\ ~hapi.watcher /\ hapi.queued = 0 /\ hapi.emitted = 0
            /\ hapi.subscribed = NoHapi.subscribed
    /\ hapi.late = 0

C20_SettleStep ==
    /\ hapi.p \in {"resolved", "rejected"} => hapi'.p = hapi.p
    /\ hapi.result \in {"returned", "rejected"} => hapi'.result = hapi.result

C20_SettlesOnceAndLetsGo == []C20_SettledState /\ [][C20_SettleStep]_vars

====
